---- MODULE Spec2Model ----
(***************************************************************************)
(* Model of scripts/afs-copy.py: the AFS -> EOS copy orchestrator.         *)
(*                                                                         *)
(* One run of copy_files is a sequential program; pc is its position.      *)
(* Strings are TLA+ strings: formatting is concatenation and prefixes are  *)
(* taken with SubSeq, so that a generated command is the very text the     *)
(* script sends.  One character is special: "X" stands for a run of        *)
(* LongRunLen characters 'x' (a very long directory name), and len() is    *)
(* PyLen, which counts every "X" as LongRunLen characters.  Python lists   *)
(* are sequences; a Python index i is position i + 1 here (pane 0 is       *)
(* panes[1], chunk 0 is dir_chunks[1]).                                    *)
(***************************************************************************)
EXTENDS Integers, Sequences, FiniteSets, TLC

VARIABLES
    pc,              \* position of the run inside copy_files
    err,             \* the exception that ended the run, "" when none
    scope,           \* store_login_password: "before", "inside", "left"
    tools,           \* which executables find_executable finds
    passFile,        \* TMP_PASS_FILE on disk
    tmux,            \* the tmux server: the session named session_name
    panes,           \* start_copy_sessions: panes
    dirs_json,       \* what json.load read from the --dirs-json file
    dir_list,        \* copy_files: dir_list
    dir_chunks,      \* start_copy_sessions: dir_chunks
    force,           \* --force
    create_eos_dirs, \* --create-eos-dirs
    session_count,   \* --session-count
    dry_run,         \* --dry-run
    i,               \* index of the loop the run is in (1-based)
    cmd,             \* start_copy_sessions: cmd of the current iteration
    log,             \* everything the run did to panes and console, in order
    ssh,             \* calls of ssh_to_lxplus with unique_sessions (afs-copy.py)
    link,            \* a run of versioning_link (cli.py)
    mig              \* a run of migrate_files_afs_to_eos (cli.py)

vars == <<pc, err, scope, tools, passFile, tmux, panes, dirs_json, dir_list,
          dir_chunks, force, create_eos_dirs, session_count, dry_run, i, cmd,
          log, ssh, link, mig>>

\* the state of the other programs of the repository: each specification
\* runs one program and leaves the others idle
Idle == [pc |-> "idle"]
others == <<ssh, link, mig>>

(***************************************************************************)
(* Bounds of the model.                                                    *)
(***************************************************************************)
MaxDirs == 4            \* longest directory list in the JSON file
MaxSessions == 3        \* largest --session-count
MaxWindows == 2         \* most windows of a pre-existing tmux session
MaxPrePanes == 2        \* most panes of a pre-existing window
LongRunLen == 15845     \* characters of the long directory name: with it
                        \* alone an unforced copy command has 16000

(***************************************************************************)
(* Module constants of afs-copy.py.                                        *)
(***************************************************************************)
TMP_PASS_FILE == "/tmp/temp.pass"
EOS_DATA_DIR == "root://eospublic.cern.ch//eos/zenodo/prod/legacydata"
EOS_FILES_DIR == EOS_DATA_DIR \o "/files"
AFS_DATA_DIR == "/afs/cern.ch/project/zenodo/prod/var/data"
AFS_FILES_DIR == AFS_DATA_DIR \o "/files"
SSH_CMD == "sshpass -f " \o TMP_PASS_FILE \o " ssh zenodo@lxplus"
EOS_SHELL_CMD == "eos root://eospublic.cern.ch/"
EOS_PREFIX == "root://eospublic.cern.ch/"
EXIT_CMD == "exit"
TransportLimit == 16000
OwnerOnly == "0600"
UmaskDefault == "0644"

(***************************************************************************)
(* String helpers (Python str methods).                                    *)
(***************************************************************************)
StartsWith(s, p) == Len(s) >= Len(p) /\ SubSeq(s, 1, Len(p)) = p

EndsWith(s, p) == Len(s) >= Len(p) /\ SubSeq(s, Len(s) - Len(p) + 1, Len(s)) = p

Contains(s, p) ==
    \E k \in 1..(Len(s) - Len(p) + 1) : SubSeq(s, k, k + Len(p) - 1) = p

IsSpace(c) == c \in {" ", "\t", "\n"}

RECURSIVE LStrip(_)
LStrip(s) ==
    IF Len(s) > 0 /\ IsSpace(SubSeq(s, 1, 1))
    THEN LStrip(SubSeq(s, 2, Len(s)))
    ELSE s

RECURSIVE RStrip(_)
RStrip(s) ==
    IF Len(s) > 0 /\ IsSpace(SubSeq(s, Len(s), Len(s)))
    THEN RStrip(SubSeq(s, 1, Len(s) - 1))
    ELSE s

\* str.strip()
Strip(s) == RStrip(LStrip(s))

\* str.replace(old, new): every non-overlapping occurrence, left to right
RECURSIVE Replace(_, _, _)
Replace(s, old, new) ==
    IF Len(s) < Len(old) \/ Len(old) = 0 THEN s
    ELSE IF SubSeq(s, 1, Len(old)) = old
         THEN new \o Replace(SubSeq(s, Len(old) + 1, Len(s)), old, new)
         ELSE SubSeq(s, 1, 1) \o Replace(SubSeq(s, 2, Len(s)), old, new)

\* ' '.join(strs)
RECURSIVE Join(_)
Join(strs) ==
    IF Len(strs) = 0 THEN ""
    ELSE IF Len(strs) = 1 THEN strs[1]
    ELSE strs[1] \o " " \o Join(Tail(strs))

\* os.path.join(a, b) on POSIX
OsPathJoin(a, b) ==
    IF StartsWith(b, "/") THEN b
    ELSE IF a = "" \/ EndsWith(a, "/") THEN a \o b
    ELSE a \o "/" \o b

\* len(s), with every "X" counted as the run of LongRunLen characters it is
PyLen(s) ==
    Len(s) + Cardinality({k \in 1..Len(s) : SubSeq(s, k, k) = "X"}) * (LongRunLen - 1)

(***************************************************************************)
(* Inputs of the model.                                                    *)
(***************************************************************************)
\* a directory name of LongRunLen characters
LongDir == "X"

\* names as they stand in the JSON file ("b " carries trailing whitespace)
RawDirs == {"a", "b ", LongDir}

SeqsUpTo(S, n) == UNION {[1..k -> S] : k \in 0..n}

\* the JSON file before json.load has read it
Unread == [ok |-> FALSE, names |-> <<>>]

\* the JSON file: not parseable, or a list of names
JsonFiles ==
    {[ok |-> FALSE, names |-> <<>>]}
        \cup {[ok |-> TRUE, names |-> s] : s \in SeqsUpTo(RawDirs, MaxDirs)}

\* the tmux server before the run: no session of that name, or one with
\* some windows, the first of them with some panes
TmuxStates ==
    {[exists |-> FALSE, windows |-> 0, panes |-> 0]}
        \cup {[exists |-> TRUE, windows |-> w, panes |-> p] :
                 w \in 1..MaxWindows, p \in 1..MaxPrePanes}

\* TMP_PASS_FILE before the run: absent, or left behind by an earlier run
PassFiles ==
    {[exists |-> FALSE, mode |-> "", content |-> ""],
     [exists |-> TRUE, mode |-> UmaskDefault, content |-> "stale"]}

Password == "secret"
afs_dir == AFS_FILES_DIR
eos_dir == EOS_FILES_DIR

(***************************************************************************)
(* Pure functions of afs-copy.py.                                          *)
(***************************************************************************)
\* l[start::step] with 0-based start >= 0 and step >= 1
RECURSIVE Slice(_, _, _)
Slice(l, start, step) ==
    IF start >= Len(l) THEN <<>>
    ELSE <<l[start + 1]>> \o Slice(l, start + step, step)

\* a plausible slip: contiguous slices of equal size instead of strides
ChunkifyContiguous(l, n) ==
    [k \in 1..n |->
        SubSeq(l, (k - 1) * (Len(l) \div n) + 1,
               IF k = n THEN Len(l) ELSE k * (Len(l) \div n))]

\* a plausible slip: the stride starts one element late
ChunkifyOffByOne(l, n) == [k \in 1..n |-> Slice(l, k, n)]

\* chunkify(l, n) == [l[i::n] for i in xrange(n)]; xrange(n) is empty for n <= 0
chunkify(l, n) == [k \in 1..n |-> Slice(l, k - 1, n)]

\* FOR_LOOP_COPY_CMD.format(dirs_array=..., src_dir=..., dst_dir=..., force=...)
FOR_LOOP_COPY_CMD(dirs_array, src_dir, dst_dir, force_flag) ==
    "for d in " \o dirs_array \o "; do xrdcp " \o force_flag
        \o " -r --parallel 4 " \o src_dir \o "/$d " \o dst_dir \o "/$d; done"

ForceFlagNever(f) == ""

\* force = '-f' if force else ''
ForceFlag(f) == IF f THEN "-f" ELSE ""

CmdFitsAlways(c) == TRUE

\* assert len(cmd) <= 16000
CmdFits(c) == PyLen(c) <= TransportLimit

CopyKeysUncommented(dry, c) == c

\* the text start_copy_sessions gives to send_keys:
\* u'# {}'.format(cmd) in dry-run, u'{}'.format(cmd) otherwise
CopyKeys(dry, c) == IF dry THEN "# " \o c ELSE c

MkdirKeysUncommented(dry, new_dir) == "mkdir -p " \o new_dir

\* the text create_dirs_on_eos gives to send_keys for one directory
MkdirKeys(dry, new_dir) ==
    IF dry THEN "# mkdir -p " \o new_dir ELSE "mkdir -p " \o new_dir

EosPathUnstripped(dir) == dir

\* eos_dir.replace('root://eospublic.cern.ch/', '')
EosPath(dir) == Replace(dir, EOS_PREFIX, "")

\* str(pane) as click.echo prints it
PaneRepr(p) == "Pane(%" \o ToString(p) \o ")"

WillRunWithoutCmd(p, c) == "\n" \o PaneRepr(p) \o " will run\n"

\* u'\n{} will run: {}\n'.format(p, cmd)
WillRun(p, c) == "\n" \o PaneRepr(p) \o " will run: " \o c \o "\n"

(***************************************************************************)
(* The log: what the run did, in order.                                    *)
(***************************************************************************)
Send(p, text) == [ev |-> "send", pane |-> p, text |-> text]
Clear(p) == [ev |-> "clear", pane |-> p, text |-> ""]
Echo(text) == [ev |-> "echo", pane |-> 0, text |-> text]
Prompt(text) == [ev |-> "prompt", pane |-> 0, text |-> text]
Split == [ev |-> "split", pane |-> 0, text |-> ""]
Layout == [ev |-> "layout", pane |-> 0, text |-> "tiled"]

(***************************************************************************)
(* Init: the state when copy_files is entered, with its options parsed.    *)
(***************************************************************************)
Init ==
    /\ pc = "check_tmux"
    /\ err = ""
    /\ scope = "before"
    /\ tools \in [tmux : BOOLEAN, sshpass : BOOLEAN]
    /\ passFile \in PassFiles
    /\ tmux \in TmuxStates
    /\ panes = <<>>
    /\ dirs_json = Unread
    /\ dir_list = <<>>
    /\ dir_chunks = <<>>
    /\ force \in BOOLEAN
    /\ create_eos_dirs \in BOOLEAN
    /\ session_count \in 0..MaxSessions
    /\ dry_run \in BOOLEAN
    /\ i = 0
    /\ cmd = ""
    /\ log = <<>>
    /\ ssh = Idle
    /\ link = Idle
    /\ mig = Idle

options == <<tools, force, create_eos_dirs, session_count, dry_run>>

\* an exception leaves copy_files.  store_login_password is a generator
\* context manager without try/finally: the exception is thrown into it at
\* the yield and os.unlink after the yield does not run.
Raise(e) ==
    /\ pc' = "raised"
    /\ err' = e
    /\ scope' = IF scope = "inside" THEN "left" ELSE scope
    /\ UNCHANGED passFile

Goto(l) == pc' = l /\ UNCHANGED <<err, scope, passFile>>

(***************************************************************************)
(* copy_files: the two tool checks.                                        *)
(***************************************************************************)
CheckTmux ==
    /\ pc = "check_tmux"
    /\ IF tools.tmux THEN Goto("check_sshpass") ELSE Raise("AssertionError: tmux")
    /\ UNCHANGED <<others, options, dirs_json, tmux, panes, dir_list, dir_chunks, i, cmd, log>>

CheckSshpassSkipped ==
    /\ pc = "check_sshpass"
    /\ Goto("touch")
    /\ UNCHANGED <<others, options, dirs_json, tmux, panes, dir_list, dir_chunks, i, cmd, log>>

CheckSshpass ==
    /\ pc = "check_sshpass"
    /\ IF tools.sshpass THEN Goto("touch") ELSE Raise("AssertionError: sshpass")
    /\ UNCHANGED <<others, options, dirs_json, tmux, panes, dir_list, dir_chunks, i, cmd, log>>

(***************************************************************************)
(* store_login_password, up to its yield.                                  *)
(***************************************************************************)
\* open(TMP_PASS_FILE, 'a') creates the file when absent; os.utime
Touch ==
    /\ pc = "touch"
    /\ passFile' = IF passFile.exists THEN passFile
                   ELSE [exists |-> TRUE, mode |-> UmaskDefault, content |-> ""]
    /\ pc' = "chmod"
    /\ UNCHANGED <<others, err, scope, options, dirs_json, tmux, panes, dir_list, dir_chunks, i,
                   cmd, log>>

ChmodSkipped ==
    /\ pc = "chmod"
    /\ pc' = "write"
    /\ UNCHANGED <<others, err, scope, passFile, options, dirs_json, tmux, panes, dir_list,
                   dir_chunks, i, cmd, log>>

\* os.chmod(TMP_PASS_FILE, 0o600)
Chmod ==
    /\ pc = "chmod"
    /\ passFile' = [passFile EXCEPT !.mode = OwnerOnly]
    /\ pc' = "write"
    /\ UNCHANGED <<others, err, scope, options, dirs_json, tmux, panes, dir_list, dir_chunks, i,
                   cmd, log>>

\* open(TMP_PASS_FILE, 'w'); fp.write(password); yield
WritePassword ==
    /\ pc = "write"
    /\ passFile' = [passFile EXCEPT !.content = Password]
    /\ scope' = "inside"
    /\ pc' = "find_session"
    /\ UNCHANGED <<others, err, options, dirs_json, tmux, panes, dir_list, dir_chunks, i, cmd, log>>

\* os.unlink(TMP_PASS_FILE), after the body of the with statement
Unlink ==
    /\ pc = "unlink"
    /\ passFile' = [exists |-> FALSE, mode |-> "", content |-> ""]
    /\ scope' = "left"
    /\ pc' = "done"
    /\ UNCHANGED <<others, err, options, dirs_json, tmux, panes, dir_list, dir_chunks, i, cmd, log>>

(***************************************************************************)
(* create_tmux_session.                                                    *)
(***************************************************************************)
\* find_where; new_session when nothing was found: a new session has one
\* window with one pane
FindSession ==
    /\ pc = "find_session"
    /\ tmux' = IF tmux.exists THEN tmux
               ELSE [exists |-> TRUE, windows |-> 1, panes |-> 1]
    /\ Goto("assert_windows")
    /\ UNCHANGED <<others, options, dirs_json, panes, dir_list, dir_chunks, i, cmd, log>>

OneWindowUnchecked(t) == TRUE

\* len(tmux_session.windows) == 1
OneWindow(t) == t.windows = 1

OnePaneUnchecked(t) == TRUE

\* len(window.panes) == 1
OnePane(t) == t.panes = 1

AssertWindows ==
    /\ pc = "assert_windows"
    /\ IF OneWindow(tmux) THEN Goto("assert_panes")
       ELSE Raise("AssertionError: windows")
    /\ UNCHANGED <<others, options, dirs_json, tmux, panes, dir_list, dir_chunks, i, cmd, log>>

AssertPanes ==
    /\ pc = "assert_panes"
    /\ IF OnePane(tmux) THEN Goto("attach_prompt")
       ELSE Raise("AssertionError: panes")
    /\ UNCHANGED <<others, options, dirs_json, tmux, panes, dir_list, dir_chunks, i, cmd, log>>

\* the two echoes and the prompt that end create_tmux_session
AttachPrompt ==
    /\ pc = "attach_prompt"
    /\ log' = log \o <<Echo("Launch the tmux session:"),
                       Echo("  tmux attach -t afseos"),
                       Prompt("Press enter to continue...")>>
    /\ Goto("load_json")
    /\ UNCHANGED <<others, options, dirs_json, tmux, panes, dir_list, dir_chunks, i, cmd>>

\* dir_list = [f.strip() for f in json.load(dirs_json)]: the file is read
\* here, and what it holds is one of JsonFiles
LoadJson ==
    /\ pc = "load_json"
    /\ \E file \in JsonFiles :
           /\ dirs_json' = file
           /\ IF file.ok
              THEN /\ dir_list' = [k \in 1..Len(file.names) |-> Strip(file.names[k])]
                   /\ i' = 1
                   /\ Goto("split")
              ELSE /\ Raise("ValueError")
                   /\ UNCHANGED <<dir_list, i>>
    /\ UNCHANGED <<others, options, tmux, panes, dir_chunks, cmd, log>>

(***************************************************************************)
(* create_panes.                                                           *)
(***************************************************************************)
SplitWindowOnceMore ==
    /\ pc = "split"
    /\ i <= session_count
    /\ tmux' = [tmux EXCEPT !.panes = @ + 1]
    /\ log' = log \o <<Split, Layout>>
    /\ i' = i + 1
    /\ Goto("split")
    /\ UNCHANGED <<others, options, dirs_json, panes, dir_list, dir_chunks, cmd>>

\* one iteration of: for _ in range(count - 1): split_window; select-layout
SplitWindow ==
    /\ pc = "split"
    /\ i <= session_count - 1
    /\ tmux' = [tmux EXCEPT !.panes = @ + 1]
    /\ log' = log \o <<Split, Layout>>
    /\ i' = i + 1
    /\ Goto("split")
    /\ UNCHANGED <<others, options, dirs_json, panes, dir_list, dir_chunks, cmd>>

\* return window.panes
ReturnPanes ==
    /\ pc = "split"
    /\ i > session_count - 1
    /\ panes' = [k \in 1..tmux.panes |-> k]
    /\ i' = 1
    /\ Goto("login")
    /\ UNCHANGED <<others, options, dirs_json, tmux, dir_list, dir_chunks, cmd, log>>

(***************************************************************************)
(* start_copy_sessions.                                                    *)
(***************************************************************************)
\* ssh_to_lxplus(p) with unique_sessions=False: clear, send SSH_CMD, sleep(2)
Login ==
    /\ pc = "login"
    /\ i <= Len(panes)
    /\ log' = log \o <<Clear(panes[i]), Send(panes[i], SSH_CMD)>>
    /\ i' = i + 1
    /\ Goto("login")
    /\ UNCHANGED <<others, options, dirs_json, tmux, panes, dir_list, dir_chunks, cmd>>

\* click.prompt('Press enter when all sessions are ready...')
PromptReady ==
    /\ pc = "login"
    /\ i > Len(panes)
    /\ log' = log \o <<Prompt("Press enter when all sessions are ready...")>>
    /\ i' = 1
    /\ Goto(IF create_eos_dirs THEN "eos_shell" ELSE "prompt_copy")
    /\ UNCHANGED <<others, options, dirs_json, tmux, panes, dir_list, dir_chunks, cmd>>

\* click.echo('Creating directories on EOS...'); create_dirs_on_eos enters
\* the EOS shell on panes[0]
EosShell ==
    /\ pc = "eos_shell"
    /\ log' = log \o <<Echo("Creating directories on EOS..."),
                       Send(panes[1], EOS_SHELL_CMD)>>
    /\ i' = 1
    /\ Goto("mkdir")
    /\ UNCHANGED <<others, options, dirs_json, tmux, panes, dir_list, dir_chunks, cmd>>

\* one iteration of: for d in dir_list
Mkdir ==
    /\ pc = "mkdir"
    /\ i <= Len(dir_list)
    /\ log' = log \o <<Send(panes[1],
                            MkdirKeys(dry_run,
                                      OsPathJoin(EosPath(eos_dir), dir_list[i])))>>
    /\ i' = i + 1
    /\ Goto("mkdir")
    /\ UNCHANGED <<others, options, dirs_json, tmux, panes, dir_list, dir_chunks, cmd>>

\* pane.send_keys('exit')
EosExit ==
    /\ pc = "mkdir"
    /\ i > Len(dir_list)
    /\ log' = log \o <<Send(panes[1], EXIT_CMD)>>
    /\ i' = 1
    /\ Goto("prompt_copy")
    /\ UNCHANGED <<others, options, dirs_json, tmux, panes, dir_list, dir_chunks, cmd>>

PromptCopySkipped ==
    /\ pc = "prompt_copy"
    /\ Goto("chunkify")
    /\ UNCHANGED <<others, options, dirs_json, tmux, panes, dir_list, dir_chunks, i, cmd, log>>

\* click.prompt('Press enter to start copying files...')
PromptCopy ==
    /\ pc = "prompt_copy"
    /\ log' = log \o <<Prompt("Press enter to start copying files...")>>
    /\ Goto("chunkify")
    /\ UNCHANGED <<others, options, dirs_json, tmux, panes, dir_list, dir_chunks, i, cmd>>

\* dir_chunks = list(chunkify(dir_list, session_count))
Chunkify ==
    /\ pc = "chunkify"
    /\ dir_chunks' = chunkify(dir_list, session_count)
    /\ Goto("assert_chunks")
    /\ UNCHANGED <<others, options, dirs_json, tmux, panes, dir_list, i, cmd, log>>

SameLengthUnchecked(chunks, ps) == TRUE

\* len(dir_chunks) == len(panes)
SameLength(chunks, ps) == Len(chunks) = Len(ps)

\* assert len(dir_chunks) == len(panes); force = '-f' if force else ''
AssertChunks ==
    /\ pc = "assert_chunks"
    /\ IF SameLength(dir_chunks, panes)
       THEN /\ i' = 1
            /\ Goto("copy")
       ELSE /\ Raise("AssertionError: chunks")
            /\ UNCHANGED i
    /\ UNCHANGED <<others, options, dirs_json, tmux, panes, dir_list, dir_chunks, cmd, log>>

\* zip(panes, dir_chunks) ends with the shorter of the two
ZipLen == IF Len(panes) <= Len(dir_chunks) THEN Len(panes) ELSE Len(dir_chunks)

ChunkOfNextPane(k) == dir_chunks[IF k < Len(dir_chunks) THEN k + 1 ELSE 1]

\* the chunk zip pairs with the k-th pane
ChunkOf(k) == dir_chunks[k]

\* one iteration of the copy loop, up to the echo: cmd is built and echoed
CopyFormat ==
    /\ pc = "copy"
    /\ i <= ZipLen
    /\ cmd' = FOR_LOOP_COPY_CMD(Join(ChunkOf(i)), afs_dir, eos_dir,
                                ForceFlag(force))
    /\ log' = log \o <<Echo(WillRun(panes[i], cmd'))>>
    /\ Goto("copy_send")
    /\ UNCHANGED <<others, options, dirs_json, tmux, panes, dir_list, dir_chunks, i>>

\* the rest of the iteration: assert len(cmd) <= 16000, then send_keys
CopySend ==
    /\ pc = "copy_send"
    /\ IF CmdFits(cmd)
       THEN /\ log' = log \o <<Send(panes[i], CopyKeys(dry_run, cmd))>>
            /\ i' = i + 1
            /\ Goto("copy")
       ELSE /\ Raise("AssertionError: len(cmd)")
            /\ UNCHANGED <<log, i>>
    /\ UNCHANGED <<others, options, dirs_json, tmux, panes, dir_list, dir_chunks, cmd>>

\* the copy loop is over: the body of the with statement ends
CopyDone ==
    /\ pc = "copy"
    /\ i > ZipLen
    /\ Goto("unlink")
    /\ UNCHANGED <<others, options, dirs_json, tmux, panes, dir_list, dir_chunks, i, cmd, log>>

Next ==
    \/ CheckTmux
    \/ CheckSshpass
    \/ Touch
    \/ Chmod
    \/ WritePassword
    \/ FindSession
    \/ AssertWindows
    \/ AssertPanes
    \/ AttachPrompt
    \/ LoadJson
    \/ SplitWindow
    \/ ReturnPanes
    \/ Login
    \/ PromptReady
    \/ EosShell
    \/ Mkdir
    \/ EosExit
    \/ PromptCopy
    \/ Chunkify
    \/ AssertChunks
    \/ CopyFormat
    \/ CopySend
    \/ CopyDone
    \/ Unlink

Spec == Init /\ [][Next]_vars

(***************************************************************************)
(* Vocabulary of the properties.                                           *)
(***************************************************************************)
Sends == SelectSeq(log, LAMBDA e : e.ev = "send")

Commented(text) == StartsWith(text, "# ")

\* a copy command as a pane receives it, commented or not
IsCopyText(text) == StartsWith(text, "for d in ") \/ StartsWith(text, "# for d in ")

IsMkdirText(text) == StartsWith(text, "mkdir -p ") \/ StartsWith(text, "# mkdir -p ")

CopySends == SelectSeq(log, LAMBDA e : e.ev = "send" /\ IsCopyText(e.text))

NumSplits == Len(SelectSeq(log, LAMBDA e : e.ev = "split"))

\* the commands that open and close remote shells
SessionControl == {SSH_CMD, EOS_SHELL_CMD, EXIT_CMD}

LenAbort == pc = "raised" /\ err = "AssertionError: len(cmd)"

\* chunkify has returned and dir_chunks holds its result
ChunksComputed ==
    \/ pc \in {"assert_chunks", "copy", "copy_send", "unlink", "done"}
    \/ pc = "raised" /\ err \in {"AssertionError: chunks", "AssertionError: len(cmd)"}

\* the copy loop has been entered: the assertion on the chunk count passed
CopyPhase ==
    \/ pc \in {"copy", "copy_send", "unlink", "done"}
    \/ LenAbort

Occurrences(seq, x) == Cardinality({k \in DOMAIN seq : seq[k] = x})

RECURSIVE SumLen(_)
SumLen(chunks) ==
    IF Len(chunks) = 0 THEN 0 ELSE Len(Head(chunks)) + SumLen(Tail(chunks))

RECURSIVE SumOccurrences(_, _)
SumOccurrences(chunks, x) ==
    IF Len(chunks) = 0 THEN 0
    ELSE Occurrences(Head(chunks), x) + SumOccurrences(Tail(chunks), x)

Range(seq) == {seq[k] : k \in DOMAIN seq}

(***************************************************************************)
(* C1: for every directory list of length L and session count N >= 1,      *)
(* chunkify returns exactly N chunks, their lengths sum to L, and every    *)
(* name occurs in the chunks together exactly as often as in the list      *)
(* (nothing lost, nothing duplicated).                                     *)
(***************************************************************************)
C1_ChunksPartitionList ==
    (ChunksComputed /\ session_count >= 1) =>
        /\ Len(dir_chunks) = session_count
        /\ SumLen(dir_chunks) = Len(dir_list)
        /\ \A x \in Range(dir_list) \cup UNION {Range(dir_chunks[k]) : k \in DOMAIN dir_chunks} :
               SumOccurrences(dir_chunks, x) = Occurrences(dir_list, x)

\* a list with a repeated name, split over two chunks
C1_Witness ==
    /\ ChunksComputed
    /\ session_count = 2
    /\ Len(dir_list) = 3
    /\ dir_list[1] = dir_list[3]
    /\ dir_list[1] # dir_list[2]

(***************************************************************************)
(* C2: chunkify assigns round-robin by index modulo n: chunk i (0-based)   *)
(* is items[i], items[i+n], items[i+2n], ... in input order, so two chunk  *)
(* sizes differ by at most one.                                            *)
(***************************************************************************)
C2_RoundRobin ==
    (ChunksComputed /\ session_count >= 1) =>
        /\ DOMAIN dir_chunks = 1..session_count
        /\ \A k \in 1..session_count :
               /\ Len(dir_chunks[k]) =
                      Cardinality({j \in 0..(Len(dir_list) - 1) :
                                      j % session_count = k - 1})
               /\ \A m \in 1..Len(dir_chunks[k]) :
                      dir_chunks[k][m] =
                          dir_list[(k - 1) + (m - 1) * session_count + 1]
        /\ \A k1, k2 \in 1..session_count :
               Len(dir_chunks[k1]) - Len(dir_chunks[k2]) \in {-1, 0, 1}

\* three different names over two sessions: chunks of two and of one
C2_Witness ==
    /\ ChunksComputed
    /\ session_count = 2
    /\ dir_list = <<"a", "b", LongDir>>
    /\ dir_chunks = <<(<<"a", LongDir>>), (<<"b">>)>>

(***************************************************************************)
(* C3: when the list is shorter than the session count (L < N), exactly    *)
(* N - L chunks are empty and the other L chunks hold one element each.    *)
(***************************************************************************)
C3_ShortList ==
    (ChunksComputed /\ session_count >= 1 /\ Len(dir_list) < session_count) =>
        /\ Cardinality({k \in DOMAIN dir_chunks : Len(dir_chunks[k]) = 0})
               = session_count - Len(dir_list)
        /\ Cardinality({k \in DOMAIN dir_chunks : Len(dir_chunks[k]) = 1})
               = Len(dir_list)

C3_Witness ==
    /\ ChunksComputed
    /\ session_count = 3
    /\ Len(dir_list) = 2

(***************************************************************************)
(* C4 (as claimed): in dry-run mode every command sent to a pane carries a *)
(* leading comment marker, in non-dry-run mode none does; this covers the  *)
(* login, the administrative shell entry and exit, mkdir and copy.         *)
(***************************************************************************)
C4_EverySendFollowsDryRun ==
    \A k \in DOMAIN log :
        log[k].ev = "send" => (dry_run <=> Commented(log[k].text))

(***************************************************************************)
(* C4 (amended): in dry-run mode every mkdir command and every copy        *)
(* command is sent with a leading comment marker, and the only commands    *)
(* sent without one are the remote login, the administrative shell entry   *)
(* and the exit, which are sent uncommented in both modes; in non-dry-run  *)
(* mode no command sent to a pane carries a leading comment marker.        *)
(***************************************************************************)
C4_DryRunCommentsMkdirAndCopy ==
    \A k \in DOMAIN log :
        log[k].ev = "send" =>
            /\ ~dry_run => ~Commented(log[k].text)
            /\ dry_run => (Commented(log[k].text) <=> log[k].text \notin SessionControl)
            /\ dry_run /\ (IsMkdirText(log[k].text) \/ IsCopyText(log[k].text))
                   => Commented(log[k].text)

\* a finished dry run that sent logins, mkdirs and copy commands
C4_Witness ==
    /\ pc = "done"
    /\ dry_run
    /\ create_eos_dirs
    /\ \E k \in DOMAIN log : log[k].ev = "send" /\ log[k].text = SSH_CMD
    /\ \E k \in DOMAIN log : log[k].ev = "send" /\ StartsWith(log[k].text, "# mkdir -p ")
    /\ \E k \in DOMAIN log : log[k].ev = "send" /\ StartsWith(log[k].text, "# for d in ")

(***************************************************************************)
(* C5: in dry-run mode no pane ever receives an uncommented 'mkdir -p' or  *)
(* an uncommented 'xrdcp' copy command, while the commented form of each   *)
(* such command is still sent to the pane that would have run it: the      *)
(* mkdirs to the first pane once the administrative shell was left, the    *)
(* copy command of chunk k to pane k once the run is done.                 *)
(***************************************************************************)
C5_DryRunNothingDestructive ==
    dry_run =>
        /\ \A k \in DOMAIN log :
               log[k].ev = "send" /\ ~Commented(log[k].text) =>
                   /\ ~StartsWith(log[k].text, "mkdir")
                   /\ ~Contains(log[k].text, "xrdcp")
        /\ (\E k \in DOMAIN log : log[k] = Send(1, EXIT_CMD)) =>
               \A j \in DOMAIN dir_list :
                   \E k \in DOMAIN log :
                       log[k] = Send(1, "# mkdir -p /eos/zenodo/prod/legacydata/files/"
                                            \o dir_list[j])
        /\ pc = "done" =>
               \A j \in DOMAIN panes :
                   \E k \in DOMAIN log :
                       log[k] = Send(panes[j],
                                     "# " \o FOR_LOOP_COPY_CMD(Join(dir_chunks[j]),
                                                               afs_dir, eos_dir,
                                                               ForceFlag(force)))

\* a finished dry run with directory creation, two panes and two directories
C5_Witness ==
    /\ pc = "done"
    /\ dry_run
    /\ create_eos_dirs
    /\ Len(panes) = 2
    /\ Len(dir_list) = 2
    /\ Len(CopySends) = 2

(***************************************************************************)
(* C6 (as claimed): once the scope of store_login_password has been left,  *)
(* normally or by an exception, the credential file does not exist.        *)
(***************************************************************************)
C6_NoCredentialFileAfterScope == scope = "left" => ~passFile.exists

(***************************************************************************)
(* C7 (as claimed): when the copy command of any session exceeds the       *)
(* transport limit, dispatch aborts before a copy command has been sent to *)
(* any session: no pane has received a copy command at the abort.          *)
(***************************************************************************)
C7_NoCopySentAtLenAbort == LenAbort => Len(CopySends) = 0

(***************************************************************************)
(* C7 (amended): when the copy command generated for a session exceeds the *)
(* transport limit (16000 characters), dispatch aborts with an assertion   *)
(* failure before that command is sent: the over-limit command is never    *)
(* sent and no later pane receives a copy command, but the panes before it *)
(* in pane order have already received their copy commands.                *)
(***************************************************************************)
C7_OverLimitCommandNotSent ==
    /\ \A k \in DOMAIN log :
           log[k].ev = "send" /\ IsCopyText(log[k].text) =>
               PyLen(log[k].text) <= TransportLimit + (IF dry_run THEN 2 ELSE 0)
    /\ LenAbort =>
           /\ PyLen(cmd) > TransportLimit
           /\ \A k \in DOMAIN log :
                  log[k].ev = "send" => log[k].text \notin {cmd, "# " \o cmd}
           /\ Len(CopySends) = i - 1
           /\ \A k \in 1..(i - 1) : CopySends[k].pane = panes[k]

\* the abort happens at the second pane, after the first got its command
C7_Witness ==
    /\ LenAbort
    /\ i = 2
    /\ Len(CopySends) = 1

(***************************************************************************)
(* C8: when the session found has 2 windows, or its single window has more *)
(* than one pane, create_tmux_session fails with an assertion violation    *)
(* and nothing is provisioned: no split, no login command, no prompt.      *)
(* (tmux.panes - NumSplits is the pane count the window had when found.)   *)
(***************************************************************************)
C8_BadTopologyProvisionsNothing ==
    (tmux.exists /\ (tmux.windows # 1 \/ tmux.panes - NumSplits # 1)) =>
        /\ log = <<>>
        /\ panes = <<>>
        /\ pc \in {"check_tmux", "check_sshpass", "touch", "chmod", "write",
                   "find_session", "assert_windows", "assert_panes", "raised"}
        /\ (pc = "raised" /\ scope = "left") =>
               err \in {"AssertionError: windows", "AssertionError: panes"}

C8_Witness ==
    /\ pc = "raised"
    /\ err = "AssertionError: windows"
    /\ tmux.windows = 2
    /\ log = <<>>

(***************************************************************************)
(* C9: with force=True every copy command dispatch generates contains the  *)
(* force flag '-f', with force=False none contains it; for every pane and  *)
(* chunk, empty chunks too, dry-run or not.  A generated command ends with *)
(* its xrdcp invocation: that invocation has '-f' as its first option iff  *)
(* force, and without force the command has no '-f' anywhere.              *)
(***************************************************************************)
HasForce(text) == Contains(text, "xrdcp -f -r ")

ForcedInvocation ==
    "; do xrdcp -f -r --parallel 4 " \o afs_dir \o "/$d " \o eos_dir \o "/$d; done"

PlainInvocation ==
    "; do xrdcp  -r --parallel 4 " \o afs_dir \o "/$d " \o eos_dir \o "/$d; done"

C9_ForceFlag ==
    /\ \A k \in DOMAIN log :
           log[k].ev = "send" /\ IsCopyText(log[k].text) =>
               IF force
               THEN HasForce(log[k].text) /\ EndsWith(log[k].text, ForcedInvocation)
               ELSE ~Contains(log[k].text, "-f") /\ EndsWith(log[k].text, PlainInvocation)
    /\ cmd # "" =>
           IF force THEN HasForce(cmd) /\ EndsWith(cmd, ForcedInvocation)
           ELSE ~Contains(cmd, "-f") /\ EndsWith(cmd, PlainInvocation)

\* a forced run whose last pane got an empty chunk
C9_Witness ==
    /\ pc = "done"
    /\ force
    /\ Len(dir_list) < session_count
    /\ Len(CopySends) = session_count
    /\ \A k \in DOMAIN CopySends : HasForce(CopySends[k].text)

(***************************************************************************)
(* C10: chunk-to-pane assignment is positional: the copy loop is entered   *)
(* only if there are as many chunks as panes; then the k-th copy command   *)
(* sent goes to pane k and is built from chunk k with its names in chunk   *)
(* order, and at the end every pane, also one with an empty chunk, has     *)
(* received exactly one copy command.                                      *)
(***************************************************************************)
C10_PositionalAssignment ==
    CopyPhase =>
        /\ Len(dir_chunks) = Len(panes)
        /\ Len(CopySends) = (IF pc \in {"unlink", "done"} THEN Len(panes) ELSE i - 1)
        /\ \A k \in DOMAIN CopySends :
               /\ CopySends[k].pane = panes[k]
               /\ CopySends[k].text =
                      (IF dry_run THEN "# " ELSE "")
                          \o "for d in " \o Join(dir_chunks[k]) \o "; do xrdcp "
                          \o (IF force THEN "-f" ELSE "")
                          \o " -r --parallel 4 " \o afs_dir \o "/$d "
                          \o eos_dir \o "/$d; done"
        /\ \A k1, k2 \in DOMAIN panes : k1 # k2 => panes[k1] # panes[k2]

\* three panes, two directories: the third pane got the empty chunk
C10_Witness ==
    /\ pc = "done"
    /\ Len(panes) = 3
    /\ dir_list = <<"a", "b">>
    /\ Len(CopySends) = 3
    /\ CopySends[3].pane = 3
    /\ dir_chunks[3] = <<>>

(***************************************************************************)
(* More vocabulary.                                                        *)
(***************************************************************************)
\* the command a pane received, without the dry-run comment marker
Uncomment(text) == IF Commented(text) THEN SubSeq(text, 3, Len(text)) ELSE text

IsLogin(e) == e.ev = "send" /\ e.text = SSH_CMD
IsCopySend(e) == e.ev = "send" /\ IsCopyText(e.text)
IsEosSend(e) == e.ev = "send" /\ e.text # SSH_CMD /\ ~IsCopyText(e.text)
IsSplit(e) == e.ev = "split"
IsReadyPrompt(e) == e = Prompt("Press enter when all sessions are ready...")
IsCopyPrompt(e) == e = Prompt("Press enter to start copying files...")

\* every event that is a P comes before every event that is a Q
AllBefore(P(_), Q(_)) ==
    LET ps == {j \in DOMAIN log : P(log[j])}
        qs == {k \in DOMAIN log : Q(log[k])}
    IN  \A j \in ps : \A k \in qs : j < k

ToolAbort == pc = "raised" /\ err \in {"AssertionError: tmux", "AssertionError: sshpass"}

(***************************************************************************)
(* C11 (as claimed): every command sent to a pane (login, administrative   *)
(* shell entry and exit, mkdir, copy) was echoed to the console before it  *)
(* was sent.                                                               *)
(***************************************************************************)
C11_EverySendEchoedBefore ==
    \A k \in DOMAIN log :
        log[k].ev = "send" =>
            \E j \in 1..(k - 1) :
                /\ log[j].ev = "echo"
                /\ \/ Contains(log[j].text, log[k].text)
                   \/ Contains(log[j].text, Uncomment(log[k].text))

(***************************************************************************)
(* C11 (amended): every copy command is echoed to the console, as          *)
(* '<pane> will run: <command>' with the command uncommented also in       *)
(* dry-run, immediately before it is sent to that pane; the login, the     *)
(* administrative shell entry and exit and the mkdir commands are sent     *)
(* without any echo of the command.                                        *)
(***************************************************************************)
C11_OnlyCopyCommandsEchoed ==
    LET copies == {k \in DOMAIN log : IsCopySend(log[k])}
        silent == {log[k].text : k \in {n \in DOMAIN log : IsLogin(log[n]) \/ IsEosSend(log[n])}}
        echoes == {log[j].text : j \in {n \in DOMAIN log : log[n].ev = "echo"}}
    IN  /\ \A k \in copies :
               /\ k > 1
               /\ log[k - 1] = Echo("\n" \o "Pane(%" \o ToString(log[k].pane)
                                    \o ") will run: " \o Uncomment(log[k].text)
                                    \o "\n")
        /\ \A text \in silent : \A echoed \in echoes : ~Contains(echoed, text)

\* a finished dry run with directory creation: echoed copies, silent rest
C11_Witness ==
    /\ pc = "done"
    /\ dry_run
    /\ create_eos_dirs
    /\ Len(dir_list) >= 1
    /\ Len(CopySends) = 2

(***************************************************************************)
(* C12: if tmux or sshpass is missing, copy_files aborts at once: the      *)
(* credential file is never created or written, no workspace is looked up  *)
(* or created, and no command is sent to any pane.                         *)
(***************************************************************************)
C12_MissingToolAbortsFirst ==
    /\ (~tools.tmux \/ ~tools.sshpass) =>
           /\ pc \in {"check_tmux", "check_sshpass", "raised"}
           /\ pc = "raised" => ToolAbort
           /\ scope = "before"
           /\ passFile \in PassFiles
           /\ passFile.content # Password
           /\ tmux \in TmuxStates
           /\ panes = <<>>
           /\ log = <<>>
    /\ ToolAbort => (~tools.tmux \/ ~tools.sshpass)

\* sshpass is missing, tmux is there and no credential file existed
C12_Witness ==
    /\ pc = "raised"
    /\ err = "AssertionError: sshpass"
    /\ tools.tmux
    /\ ~passFile.exists
    /\ ~tmux.exists

(***************************************************************************)
(* C14: the phases of a run come in order: splits, then the login of every *)
(* pane, then the first confirmation, then (if asked) the administrative   *)
(* shell with every mkdir and its exit, then the second confirmation, then *)
(* the copy commands.  No copy command is sent before every pane got the   *)
(* login and both confirmations were given, and with create_eos_dirs every *)
(* mkdir and the exit precede the first copy command.                      *)
(***************************************************************************)
C14_PhaseOrder ==
    /\ AllBefore(IsSplit, IsLogin)
    /\ AllBefore(IsLogin, IsReadyPrompt)
    /\ AllBefore(IsReadyPrompt, IsEosSend)
    /\ AllBefore(IsEosSend, IsCopyPrompt)
    /\ AllBefore(IsReadyPrompt, IsCopyPrompt)
    /\ AllBefore(IsCopyPrompt, IsCopySend)
    /\ (\E k \in DOMAIN log : IsCopySend(log[k])) =>
           /\ \A p \in 1..tmux.panes : \E j \in DOMAIN log : log[j] = Send(p, SSH_CMD)
           /\ \E j \in DOMAIN log : IsReadyPrompt(log[j])
           /\ \E j \in DOMAIN log : IsCopyPrompt(log[j])
           /\ create_eos_dirs =>
                  /\ \E j \in DOMAIN log : log[j] = Send(1, EXIT_CMD)
                  /\ Len(SelectSeq(log, LAMBDA e : e.ev = "send" /\ IsMkdirText(e.text)))
                         = Len(dir_list)
           /\ ~create_eos_dirs => \A j \in DOMAIN log : ~IsEosSend(log[j])

\* a finished run with three panes, directory creation and two directories
C14_Witness ==
    /\ pc = "done"
    /\ create_eos_dirs
    /\ Len(panes) = 3
    /\ Len(dir_list) = 2
    /\ Len(CopySends) = 3

(***************************************************************************)
(* C15: the credential file is owner-only whenever it holds the password:  *)
(* the mode is set to 0600 before the password is written; and the file    *)
(* with the password exists wherever a login command is sent.              *)
(***************************************************************************)
C15_CredentialFileRestricted ==
    /\ (passFile.exists /\ passFile.content = Password) => passFile.mode = OwnerOnly
    /\ pc = "write" => passFile.mode = OwnerOnly
    /\ scope = "inside" =>
           passFile = [exists |-> TRUE, mode |-> OwnerOnly, content |-> Password]
    /\ pc = "login" => scope = "inside"
    /\ (\E k \in DOMAIN log : IsLogin(log[k])) => scope # "before"

\* the second login is about to be sent while the file holds the password
C15_Witness ==
    /\ pc = "login"
    /\ i = 2
    /\ \E k \in DOMAIN log : IsLogin(log[k])
    /\ passFile.content = Password
    /\ passFile.mode = OwnerOnly

(***************************************************************************)
(* C18: create_dirs_on_eos sends to its one pane (the first), in order:    *)
(* the administrative shell entry, one mkdir -p per directory of the list  *)
(* in list order (path: eos_dir without the connection prefix, joined with *)
(* the name; as a comment in dry-run), then exit; nothing goes to another  *)
(* pane, and nothing at all without create_eos_dirs.                       *)
(***************************************************************************)
EosSends == SelectSeq(log, IsEosSend)

ExpectedEosSends ==
    <<Send(1, "eos root://eospublic.cern.ch/")>>
        \o [j \in 1..Len(dir_list) |->
               Send(1, (IF dry_run THEN "# " ELSE "")
                           \o "mkdir -p /eos/zenodo/prod/legacydata/files/"
                           \o dir_list[j])]
        \o <<Send(1, "exit")>>

C18_CreateDirsSequence ==
    /\ Len(EosSends) <= Len(ExpectedEosSends)
    /\ EosSends = SubSeq(ExpectedEosSends, 1, Len(EosSends))
    /\ ~create_eos_dirs => EosSends = <<>>
    /\ pc = "mkdir" => Len(EosSends) = i
    /\ (create_eos_dirs /\ (pc \in {"prompt_copy", "chunkify"} \/ ChunksComputed)) =>
           EosSends = ExpectedEosSends

\* directory creation is over: three panes, two directories, not a dry run
C18_Witness ==
    /\ pc = "prompt_copy"
    /\ create_eos_dirs
    /\ ~dry_run
    /\ Len(panes) = 3
    /\ dir_list = <<"a", "b">>
    /\ Len(EosSends) = 4

(***************************************************************************)
(* C19: create_panes on a window of one pane makes count - 1 splits, each  *)
(* followed by the tiled layout, and returns count panes; so the panes     *)
(* dispatch uses are session_count many, for every session_count >= 1.     *)
(***************************************************************************)
C19_PanesEqualSessionCount ==
    /\ \A k \in DOMAIN log :
           IsSplit(log[k]) => (k < Len(log) /\ log[k + 1] = Layout)
    /\ (pc = "split" /\ session_count >= 1) =>
           (NumSplits = i - 1 /\ NumSplits <= session_count - 1)
    /\ (panes # <<>> /\ session_count >= 1) =>
           /\ NumSplits = session_count - 1
           /\ Len(panes) = session_count
           /\ tmux.panes = session_count
           /\ pc = "done" => Len(CopySends) = session_count

C19_Witness ==
    /\ pc = "done"
    /\ session_count = 3
    /\ NumSplits = 2
    /\ Len(panes) = 3

(***************************************************************************)
(* ssh_to_lxplus with unique_sessions (afs-copy.py).                       *)
(*                                                                         *)
(* start_copy_sessions never passes unique_sessions, so this path is       *)
(* modelled on its own: the function is called for each pane in turn, as   *)
(* in the loop of start_copy_sessions, with the flag an input.  ssh holds: *)
(*   pc, pane, npanes   position, current pane, number of panes            *)
(*   unique             the flag the caller passes                         *)
(*   u, depth           the flag of the running call; 1 inside the retry   *)
(*   claimed            _current_lxplus_sessions                           *)
(*   hosts              per pane, the host its last login goes to          *)
(*   reach, delay       host of the login under way; polls until its       *)
(*                      prompt is the last line of the pane (Never: never) *)
(*   last_line          last_line                                          *)
(***************************************************************************)
MaxSshPanes == 2        \* most panes ssh_to_lxplus is called for
MaxDelay == 2           \* most polls before a prompt shows

Never == -1
Hosts == {"lxplus001", "lxplus002"}

\* the last line of a pane once the remote shell is there
PromptLine(h) == "[zenodo@" \o h \o " ~]$ "

\* last lines of a pane before that
WaitingLines == {"", "zenodo@lxplus's password: "}

IsDigit(c) == c \in {"0", "1", "2", "3", "4", "5", "6", "7", "8", "9"}

\* how many digits stand at position k and after
RECURSIVE DigitsRun(_, _)
DigitsRun(line, k) ==
    IF k <= Len(line) /\ IsDigit(SubSeq(line, k, k))
    THEN 1 + DigitsRun(line, k + 1)
    ELSE 0

\* r'zenodo@(lxplus\d+) ~' matches at position k
HostRegexAt(line, k) ==
    /\ k + 12 <= Len(line)
    /\ SubSeq(line, k, k + 12) = "zenodo@lxplus"
    /\ DigitsRun(line, k + 13) >= 1
    /\ SubSeq(line, k + 13 + DigitsRun(line, k + 13),
              k + 14 + DigitsRun(line, k + 13)) = " ~"

\* re.search(host_regex, line).groups()[0], "" where re.search gives None
ReSearch(line) ==
    LET at == {k \in 1..Len(line) : HostRegexAt(line, k)}
    IN  IF at = {} THEN ""
        ELSE LET k == CHOOSE m \in at : \A n \in at : m <= n
             IN  SubSeq(line, k + 7, k + 12 + DigitsRun(line, k + 13))

LoopExitsAlways(line) == TRUE

\* the test of: while not re.search(host_regex, last_line)
LoopExits(line) == ReSearch(line) # ""

RetryFlagPropagated(flag) == flag

\* the flag of the recursive call ssh_to_lxplus(pane): the default, False
RetryFlag(flag) == FALSE

copy_vars == <<pc, err, scope, tools, passFile, tmux, panes, dirs_json, dir_list,
               dir_chunks, force, create_eos_dirs, session_count, dry_run, i, cmd>>

\* copy_files is not running
CopyIdle ==
    /\ pc = "idle"
    /\ err = ""
    /\ scope = "before"
    /\ tools = [tmux |-> TRUE, sshpass |-> TRUE]
    /\ passFile = [exists |-> FALSE, mode |-> "", content |-> ""]
    /\ tmux = [exists |-> FALSE, windows |-> 0, panes |-> 0]
    /\ panes = <<>>
    /\ dirs_json = Unread
    /\ dir_list = <<>>
    /\ dir_chunks = <<>>
    /\ force = FALSE
    /\ create_eos_dirs = FALSE
    /\ session_count = 0
    /\ dry_run = FALSE
    /\ i = 0
    /\ cmd = ""

InitSsh ==
    /\ CopyIdle
    /\ log = <<>>
    /\ link = Idle
    /\ mig = Idle
    /\ \E n \in 1..MaxSshPanes, flag \in BOOLEAN :
           ssh = [pc |-> "send", pane |-> 1, npanes |-> n, unique |-> flag,
                  u |-> flag, depth |-> 0, claimed |-> {},
                  hosts |-> [p \in 1..n |-> ""], reach |-> "", delay |-> 0,
                  last_line |-> ""]

\* pane.clear(); pane.send_keys(SSH_CMD); last_line = ''.  Which host the
\* login reaches and when its prompt shows is up to lxplus.
SshSendKeys ==
    /\ ssh.pc = "send"
    /\ \E h \in Hosts, d \in (0..MaxDelay) \cup {Never} :
           ssh' = [ssh EXCEPT !.pc = IF ssh.u THEN "poll" ELSE "sleep",
                              !.reach = h,
                              !.delay = d,
                              !.hosts[ssh.pane] = h,
                              !.last_line = ""]
    /\ log' = log \o <<Clear(ssh.pane), Send(ssh.pane, SSH_CMD)>>
    /\ UNCHANGED <<copy_vars, link, mig>>

\* one round of the loop: sleep(1); last_line = capture-pane's last line;
\* then the loop test
SshPoll ==
    /\ ssh.pc = "poll"
    /\ \E line \in (IF ssh.delay = 0 THEN {PromptLine(ssh.reach)} ELSE WaitingLines) :
           ssh' = [ssh EXCEPT !.last_line = line,
                              !.delay = IF ssh.delay > 0 THEN ssh.delay - 1 ELSE ssh.delay,
                              !.pc = IF LoopExits(line) THEN "matched" ELSE "poll"]
    /\ UNCHANGED <<copy_vars, log, link, mig>>

\* res = re.search(...); if res: the host is retried when claimed, else claimed
SshMatched ==
    /\ ssh.pc = "matched"
    /\ LET lxplus_host == ReSearch(ssh.last_line)
       IN  ssh' = IF lxplus_host = "" THEN [ssh EXCEPT !.pc = "returned"]
                  ELSE IF lxplus_host \in ssh.claimed
                  THEN [ssh EXCEPT !.pc = "send", !.depth = ssh.depth + 1,
                                   !.u = RetryFlag(ssh.u)]
                  ELSE [ssh EXCEPT !.pc = "returned",
                                   !.claimed = ssh.claimed \cup {lxplus_host}]
    /\ UNCHANGED <<copy_vars, log, link, mig>>

\* else: sleep(2)
SshSleep ==
    /\ ssh.pc = "sleep"
    /\ ssh' = [ssh EXCEPT !.pc = "returned"]
    /\ UNCHANGED <<copy_vars, log, link, mig>>

\* the recursive call returns into the call that made it, which returns too
SshRetryReturns ==
    /\ ssh.pc = "returned"
    /\ ssh.depth > 0
    /\ ssh' = [ssh EXCEPT !.depth = ssh.depth - 1, !.u = ssh.unique]
    /\ UNCHANGED <<copy_vars, log, link, mig>>

\* for p in panes: the call for the next pane
SshNextPane ==
    /\ ssh.pc = "returned"
    /\ ssh.depth = 0
    /\ ssh.pane < ssh.npanes
    /\ ssh' = [ssh EXCEPT !.pc = "send", !.pane = ssh.pane + 1, !.u = ssh.unique]
    /\ UNCHANGED <<copy_vars, log, link, mig>>

\* the loop over the panes is over
SshLoopDone ==
    /\ ssh.pc = "returned"
    /\ ssh.depth = 0
    /\ ssh.pane = ssh.npanes
    /\ ssh' = [ssh EXCEPT !.pc = "done"]
    /\ UNCHANGED <<copy_vars, log, link, mig>>

NextSsh ==
    \/ SshSendKeys
    \/ SshPoll
    \/ SshMatched
    \/ SshSleep
    \/ SshRetryReturns
    \/ SshNextPane
    \/ SshLoopDone

SpecSsh == InitSsh /\ [][NextSsh]_vars

\* the script is one sequential process: it takes its next step
SpecSshFair == SpecSsh /\ WF_vars(NextSsh)

(***************************************************************************)
(* C16: with unique_sessions the reached host is added to the claimed set  *)
(* only if it was not claimed; if it was, the login is retried, but        *)
(* without the flag: the retry neither polls nor checks nor records the    *)
(* host it reaches, so the claimed set is unchanged by the retry and the   *)
(* pane can end up on a host another pane has claimed.                     *)
(***************************************************************************)
C16_RetryDropsUniqueness ==
    /\ [](ssh.depth > 0 => (~ssh.u /\ ssh.pc \in {"send", "sleep", "returned"}))
    /\ [][ssh.depth > 0 => ssh'.claimed = ssh.claimed]_vars
    /\ [][ssh'.claimed # ssh.claimed =>
            /\ ssh.pc = "matched" /\ ssh.u /\ ssh.depth = 0
            /\ ReSearch(ssh.last_line) = ssh.reach
            /\ ssh.reach \notin ssh.claimed
            /\ ssh'.claimed = ssh.claimed \cup {ssh.reach}]_vars
    /\ [][(ssh.pc = "matched" /\ ssh.reach \in ssh.claimed) =>
            (ssh'.pc = "send" /\ ssh'.depth = 1 /\ ~ssh'.u)]_vars

\* both panes are on the host the first pane claimed
C16_Witness ==
    /\ ssh.pc = "done"
    /\ ssh.unique
    /\ ssh.npanes = 2
    /\ ssh.hosts[1] = ssh.hosts[2]
    /\ ssh.claimed = {ssh.hosts[1]}
    /\ Len(SelectSeq(log, LAMBDA e : e = Send(2, SSH_CMD))) = 2

(***************************************************************************)
(* C17: with unique_sessions the wait has no timeout: the polling loop is  *)
(* left only when the last captured line matches the prompt pattern; if    *)
(* the prompt never shows the run stays in the loop and reaches no later   *)
(* step; if the prompt shows after some polls, the call returns.           *)
(***************************************************************************)
C17_PollingHasNoTimeout ==
    /\ [][(ssh.pc = "poll" /\ ssh'.pc # "poll") =>
            (ssh'.pc = "matched" /\ ReSearch(ssh'.last_line) # "")]_vars
    /\ [][(ssh.pc = "poll" /\ ssh.delay = Never) =>
            (ssh'.pc = "poll" /\ ssh'.pane = ssh.pane /\ ssh'.delay = Never
             /\ log' = log)]_vars
    /\ ((ssh.pc = "poll" /\ ssh.delay # Never) ~>
            (ssh.pc = "returned" /\ ssh.depth = 0))

\* the first of two panes polls for a prompt that never shows
C17_Witness ==
    /\ ssh.pc = "poll"
    /\ ssh.delay = Never
    /\ ssh.last_line # ""
    /\ ssh.pane = 1
    /\ ssh.npanes = 2

(***************************************************************************)
(* versioning_link (cli.py).                                               *)
(*                                                                         *)
(* The database is the one of the docstring: 123, 234, 345 are the         *)
(* versions of one record, 543 and 432 of another, 111 and 222 are not     *)
(* versioned.  link holds:                                                 *)
(*   pc         position                                                   *)
(*   recids     the RECIDS arguments, in the order given                   *)
(*   upgraded   the given recids whose record has a conceptdoi             *)
(*   linked     versioning_link_records(recids) was called                 *)
(*   echo       the message printed on abort                               *)
(***************************************************************************)
MaxRecids == 4          \* most RECIDS arguments

Schemes == {{123, 234, 345}, {543, 432}}
Unversioned == {111, 222}
Versioned == UNION Schemes
AllRecids == Versioned \cup Unversioned

\* 'conceptdoi' in rec
HasConceptDoi(recid) == recid \in Versioned

\* PIDVersioning(child=recid).children.all(), as recids
Children(recid) == CHOOSE scheme \in Schemes : recid \in scheme

\* sorted(int_recids) == int_recids
IsSorted(seq) == \A k \in 1..(Len(seq) - 1) : seq[k] <= seq[k + 1]

InitLink ==
    /\ CopyIdle
    /\ log = <<>>
    /\ ssh = Idle
    /\ mig = Idle
    /\ \E n \in 1..MaxRecids : \E recids \in [1..n -> AllRecids] :
           link = [pc |-> "order", recids |-> recids, upgraded |-> <<>>,
                   linked |-> FALSE, echo |-> ""]

\* the order of creation, or the operator's word for another order
LinkCheckOrder ==
    /\ link.pc = "order"
    /\ IF IsSorted(link.recids)
       THEN link' = [link EXCEPT !.pc = "resolve"]
       ELSE \E confirm \in BOOLEAN :
                link' = IF confirm
                        THEN [link EXCEPT !.pc = "resolve"]
                        ELSE [link EXCEPT !.pc = "aborted",
                                          !.echo = "Record linking aborted."]
    /\ UNCHANGED <<copy_vars, log, ssh, mig>>

\* recids_records, upgraded
LinkResolve ==
    /\ link.pc = "resolve"
    /\ link' = [link EXCEPT !.pc = "check",
                            !.upgraded = SelectSeq(link.recids, HasConceptDoi)]
    /\ UNCHANGED <<copy_vars, log, ssh, mig>>

\* neither branch of the if is taken
LinkNoneUpgraded ==
    /\ link.pc = "check"
    /\ Len(link.upgraded) = 0
    /\ link' = [link EXCEPT !.pc = "link"]
    /\ UNCHANGED <<copy_vars, log, ssh, mig>>

\* if len(upgraded) == 1 and not click.confirm(...): return
LinkConfirmSingle ==
    /\ link.pc = "check"
    /\ Len(link.upgraded) = 1
    /\ \E confirm \in BOOLEAN :
           link' = [link EXCEPT !.pc = IF confirm THEN "link" ELSE "aborted"]
    /\ UNCHANGED <<copy_vars, log, ssh, mig>>

\* elif len(upgraded) > 1: the two checks against the children of upgraded[0]
LinkCheckScheme ==
    /\ link.pc = "check"
    /\ Len(link.upgraded) > 1
    /\ LET i_recids == Range(link.recids)
           child_recids == Children(link.upgraded[1])
           i_upgraded == Range(link.upgraded)
       IN  link' = IF ~(child_recids \subseteq i_recids)
                   THEN [link EXCEPT !.pc = "aborted",
                                     !.echo = "All children recids need to be specified. Aborting."]
                   ELSE IF child_recids # i_upgraded
                   THEN [link EXCEPT !.pc = "aborted",
                                     !.echo = "Found multiple upgraded records. Aborting."]
                   ELSE [link EXCEPT !.pc = "link"]
    /\ UNCHANGED <<copy_vars, log, ssh, mig>>

\* versioning_link_records(recids)
LinkRecords ==
    /\ link.pc = "link"
    /\ link' = [link EXCEPT !.pc = "done", !.linked = TRUE]
    /\ UNCHANGED <<copy_vars, log, ssh, mig>>

NextLink ==
    \/ LinkCheckOrder
    \/ LinkResolve
    \/ LinkNoneUpgraded
    \/ LinkConfirmSingle
    \/ LinkCheckScheme
    \/ LinkRecords

SpecLink == InitLink /\ [][NextLink]_vars

\* the given recids that are already versioned
GivenVersioned == Range(link.recids) \cap Versioned

\* the docstring's supported inputs with a versioned record among them
SupportedVersionedInput ==
    \E scheme \in Schemes :
        /\ scheme \subseteq Range(link.recids)
        /\ GivenVersioned \subseteq scheme

(***************************************************************************)
(* C13: versioning_link_records is called only for supported inputs: when  *)
(* at least one given recid is already versioned, all children of its      *)
(* versioning scheme are among the given recids and every versioned recid  *)
(* given belongs to that one scheme; otherwise nothing is linked.          *)
(***************************************************************************)
C13_LinksOnlySupportedInputs ==
    (link.pc = "done" /\ link.linked /\ GivenVersioned # {})
        => SupportedVersionedInput

(***************************************************************************)
(* migrate_files_afs_to_eos (cli.py).                                      *)
(*                                                                         *)
(* mig holds:                                                              *)
(*   pc        position                                                    *)
(*   files     number of FileInstance rows whose uri starts with           *)
(*             afs_prefix; their ids are 1..files                          *)
(*   dry_run   the --dry-run flag                                          *)
(*   f         the file of the running iteration                           *)
(*   db_uri    per file, the uri in the database                           *)
(*   uri       per file, f.uri of the object in db.session                 *)
(*   outcome   per file, what its iteration met                            *)
(*   failed    failed_files                                                *)
(*   errors    what json.dump wrote to the errors file                     *)
(***************************************************************************)
MaxFiles == 3           \* most files the query returns

afs_prefix == "/opt/zenodo/var/data/"
eos_prefix == "root://eospublic.cern.ch//eos/zenodo/prod/legacydata/"

\* the uri a file has in the database before the command
AfsUri(f) == afs_prefix \o "f" \o ToString(f)

NotWritten == <<"not written">>

InitMigrate ==
    /\ CopyIdle
    /\ log = <<>>
    /\ ssh = Idle
    /\ link = Idle
    /\ \E n \in 0..MaxFiles, flag \in BOOLEAN :
           mig = [pc |-> "loop", files |-> n, dry_run |-> flag, f |-> 0,
                  db_uri |-> [f \in 1..n |-> AfsUri(f)],
                  uri |-> [f \in 1..n |-> AfsUri(f)],
                  outcome |-> [f \in 1..n |-> ""],
                  failed |-> <<>>, errors |-> NotWritten]

\* for f in afs_files: the next file
NextFile == mig.f + 1

\* new_uri = f.uri.replace(afs_prefix, eos_prefix)
NewUri(f) == Replace(mig.uri[f], afs_prefix, eos_prefix)

\* the iteration of file f ends with what it met and did
MigIteration(f, met, uri, db_uri, failed) ==
    /\ mig.pc = "loop"
    /\ f <= mig.files
    /\ mig' = [mig EXCEPT !.f = f, !.outcome[f] = met, !.uri = uri,
                          !.db_uri = db_uri, !.failed = failed]
    /\ UNCHANGED <<copy_vars, log, ssh, link>>

\* XRootDFileStorage(new_uri).checksum() raises: except branch
MigChecksumRaises ==
    /\ mig.f < mig.files
    /\ LET f == NextFile
       IN  MigIteration(f, "checksum raises", mig.uri, mig.db_uri,
                        Append(mig.failed, <<f, mig.uri[f], NewUri(f)>>))

\* old_checksum != new_checksum: else branch
MigChecksumMismatch ==
    /\ mig.f < mig.files
    /\ LET f == NextFile
       IN  MigIteration(f, "mismatch", mig.uri, mig.db_uri,
                        Append(mig.failed, <<f, mig.uri[f], NewUri(f)>>))

\* checksums equal, dry run: nothing is done
MigDryRunMatch ==
    /\ mig.dry_run
    /\ MigIteration(NextFile, "match", mig.uri, mig.db_uri, mig.failed)

\* checksums equal: f.uri = new_uri, then f.verify_checksum() raises and
\* the except branch records the file; the session keeps the changed object
MigVerifyRaises ==
    /\ ~mig.dry_run
    /\ LET f == NextFile
           uri == [mig.uri EXCEPT ![f] = NewUri(f)]
       IN  MigIteration(f, "verify raises", uri, mig.db_uri,
                        Append(mig.failed, <<f, uri[f], NewUri(f)>>))

\* checksums equal: f.uri = new_uri; f.verify_checksum();
\* db.session.add(f); db.session.commit() writes every changed object of
\* the session
MigCommit ==
    /\ ~mig.dry_run
    /\ LET f == NextFile
           uri == [mig.uri EXCEPT ![f] = NewUri(f)]
       IN  MigIteration(f, "match", uri, uri, mig.failed)

\* json.dump(failed_files, errors, indent=2)
MigDump ==
    /\ mig.pc = "loop"
    /\ mig.f = mig.files
    /\ mig' = [mig EXCEPT !.pc = "done", !.errors = mig.failed]
    /\ UNCHANGED <<copy_vars, log, ssh, link>>

NextMigrate ==
    \/ MigChecksumRaises
    \/ MigChecksumMismatch
    \/ MigDryRunMatch
    \/ MigVerifyRaises
    \/ MigCommit
    \/ MigDump

SpecMigrate == InitMigrate /\ [][NextMigrate]_vars

\* the ids in the failed list
FailedIds(failed) == {failed[k][1] : k \in DOMAIN failed}

(***************************************************************************)
(* C20: the persisted URI of a file changes from the AFS to the EOS prefix *)
(* only if dry_run is false and its checksums were equal; every file with  *)
(* a mismatch or an exception is in the failed list written to the errors  *)
(* file; a file in the failed list never has its new URI persisted, also   *)
(* not by the commit of a later file; a dry run changes no URI.            *)
(***************************************************************************)
C20_FailedFilesKeepAfsUri ==
    mig.pc \in {"loop", "done"} =>
        /\ \A f \in 1..mig.files :
               mig.db_uri[f] # AfsUri(f) =>
                   /\ ~mig.dry_run
                   /\ mig.outcome[f] \in {"match", "verify raises"}
                   /\ mig.db_uri[f] = eos_prefix \o "f" \o ToString(f)
        /\ \A f \in 1..mig.files :
               mig.outcome[f] \in {"mismatch", "checksum raises", "verify raises"}
                   => f \in FailedIds(mig.failed)
        /\ mig.pc = "done" => mig.errors = mig.failed
        /\ \A f \in FailedIds(mig.failed) : mig.db_uri[f] = AfsUri(f)
        /\ mig.dry_run => \A f \in 1..mig.files : mig.db_uri[f] = AfsUri(f)

====
